---- MODULE Spec2Model ----
(***************************************************************************)
(* Model of latex_style_converter.py: the validation / export / expansion  *)
(* / figure copy / rewrite pipeline of the script and the text functions   *)
(* it is built from.  Texts and file names are sequences of tokens: one    *)
(* token is one character, except that a command name (\includegraphics,   *)
(* \graphicspath, \bibliography), the word Fig and a file extension word   *)
(* are one token each.                                                     *)
(***************************************************************************)
EXTENDS Integers, Sequences, FiniteSets, TLC

VARIABLES pc, main_name, cwdFiles, styleFiles, figDirExists, latexpand,
          errors, success, exitStatus, tdirExists, tdir, tdir0, tmp, cwd,
          content, figures, figDir, toolsRun, written, trace, failStage,
          failAt, input, copyOk, bibResult

vars == <<pc, main_name, cwdFiles, styleFiles, figDirExists, latexpand,
          errors, success, exitStatus, tdirExists, tdir, tdir0, tmp, cwd,
          content, figures, figDir, toolsRun, written, trace, failStage,
          failAt, input, copyOk, bibResult>>

(* ------------------------------ bounds --------------------------------- *)

\* longest document of the extractor specification, in segments
MaxSegs == 4
\* longest document of the rewrite specification, in lines
MaxLines == 3
\* longest document of the \graphicspath strip specification, in tokens
MaxStripToks == 6
\* longest document of the \bibliography rewrite specification, in tokens
MaxBibToks == 6
\* longest reference list handed to copy_figures on its own
MaxFigs == 2

(* ------------------------------ tokens --------------------------------- *)

IG  == "\\includegraphics"
GP  == "\\graphicspath"
BIB == "\\bibliography"
NL  == "\n"
SP  == " "

\* the characters matched by \s among the tokens
IsSpace(t) == t \in {SP, NL}

(* --------------------------- sequence helpers -------------------------- *)

RECURSIVE Flatten(_)
Flatten(ss) == IF ss = <<>> THEN <<>> ELSE Head(ss) \o Flatten(Tail(ss))

RECURSIVE SeqsUpTo(_, _)
SeqsUpTo(S, n) ==
    IF n = 0 THEN {<<>>}
    ELSE LET R == SeqsUpTo(S, n - 1)
         IN  R \cup {Append(r, s) : r \in {q \in R : Len(q) = n - 1}, s \in S}

Drop(s, n) == SubSeq(s, n + 1, Len(s))

StartsWith(s, p) == Len(p) <= Len(s) /\ SubSeq(s, 1, Len(p)) = p

\* smallest index >= from whose token satisfies the test, 0 when none
RECURSIVE FirstIndex(_, _, _)
FirstIndex(s, from, t) ==
    IF from > Len(s) THEN 0
    ELSE IF s[from] = t THEN from
    ELSE FirstIndex(s, from + 1, t)

\* greatest index of token t in s, 0 when none (str.rfind, 1-based)
RECURSIVE LastIndex(_, _, _)
LastIndex(s, from, t) ==
    IF from < 1 THEN 0
    ELSE IF s[from] = t THEN from
    ELSE LastIndex(s, from - 1, t)

\* the lines of a text, as the MULTILINE anchor ^ sees them
RECURSIVE SplitLines(_)
SplitLines(s) ==
    LET i == FirstIndex(s, 1, NL)
    IN  IF i = 0 THEN <<s>>
        ELSE <<SubSeq(s, 1, i - 1)>> \o SplitLines(Drop(s, i))

\* decimal digits of a natural number, as f'{n}' prints them
RECURSIVE DecStr(_)
DecStr(n) ==
    LET d == <<"0", "1", "2", "3", "4", "5", "6", "7", "8", "9">>
    IN  IF n < 10 THEN <<d[n + 1]>> ELSE DecStr(n \div 10) \o <<d[(n % 10) + 1]>>

\* f'Fig{i+1}' for the 1-based position k
FigName(k) == <<"Fig">> \o DecStr(k)

(* ------------------------ str.replace(old, new) ------------------------ *)

RECURSIVE ReplaceFrom(_, _, _)
ReplaceFrom(s, old, new) ==
    IF s = <<>> THEN <<>>
    ELSE IF StartsWith(s, old) THEN new \o ReplaceFrom(Drop(s, Len(old)), old, new)
    ELSE <<Head(s)>> \o ReplaceFrom(Tail(s), old, new)

\* an empty old matches before every character and at the end
StrReplace(s, old, new) ==
    IF old = <<>>
    THEN Flatten([i \in 1..Len(s) |-> new \o <<s[i]>>]) \o new
    ELSE ReplaceFrom(s, old, new)

(* ------------------------------ pathlib -------------------------------- *)

RECURSIVE SplitPath(_)
SplitPath(s) ==
    LET i == FirstIndex(s, 1, "/")
    IN  IF i = 0 THEN <<s>>
        ELSE <<SubSeq(s, 1, i - 1)>> \o SplitPath(Drop(s, i))

\* Path(p).name: the last component, empty and "." components dropped
PathName(p) ==
    LET parts == SelectSeq(SplitPath(p), LAMBDA c : c # <<>> /\ c # <<".">>)
    IN  IF parts = <<>> THEN <<>> ELSE parts[Len(parts)]

\* PurePath.suffix of a name: from the last dot, unless it leads or trails
PathSuffix(name) ==
    LET i == LastIndex(name, Len(name), ".")
    IN  IF 1 < i /\ i < Len(name) THEN SubSeq(name, i, Len(name)) ELSE <<>>

\* Path(p).stem
PathStem(p) ==
    LET name == PathName(p)
    IN  SubSeq(name, 1, Len(name) - Len(PathSuffix(name)))

\* Path(dir / name).with_suffix(ext), as the file name inside dir
WithSuffix(name, ext) ==
    SubSeq(name, 1, Len(name) - Len(PathSuffix(name))) \o ext

(* ------------------------ extract_figure_names ------------------------- *)

\* (?:\[.*?\])?\{(.*?)\} tried at index q of a line: the index pair
\* <<first, last>> of the captured group, <<0, 0>> when it does not match
RECURSIVE BracketClose(_, _)
BracketClose(line, j) ==
    \* lazy .*? of the option: the nearest "]" that lets the rest match
    LET c == FirstIndex(line, j, "]")
    IN  IF c = 0 THEN 0
        ELSE IF c < Len(line) /\ line[c + 1] = "{"
                  /\ FirstIndex(line, c + 2, "}") # 0 THEN c
        ELSE BracketClose(line, c + 1)

DirectiveAt(line, q) ==
    IF q > Len(line) THEN <<0, 0>>
    ELSE IF line[q] = "["
    THEN LET c == BracketClose(line, q + 1)
         IN  IF c = 0 THEN <<0, 0>>
             ELSE <<c + 2, FirstIndex(line, c + 2, "}") - 1>>
    ELSE IF line[q] = "{" /\ FirstIndex(line, q + 1, "}") # 0
    THEN <<q + 1, FirstIndex(line, q + 1, "}") - 1>>
    ELSE <<0, 0>>

\* greedy .* : the last \includegraphics of the line the rest matches at
RECURSIVE LastDirective(_, _)
LastDirective(line, p) ==
    IF p < 1 THEN 0
    ELSE IF line[p] = IG /\ DirectiveAt(line, p + 1) # <<0, 0>> THEN p
    ELSE LastDirective(line, p - 1)

\* the single match ^(?!%).*\\includegraphics... can have on one line
LineMatch(line) ==
    IF line # <<>> /\ line[1] = "%" THEN <<>>
    ELSE LET p == LastDirective(line, Len(line))
         IN  IF p = 0 THEN <<>>
             ELSE LET g == DirectiveAt(line, p + 1)
                  IN  <<SubSeq(line, g[1], g[2])>>

extract_figure_names(text) ==
    LET lines == SplitLines(text)
    IN  Flatten([i \in 1..Len(lines) |-> LineMatch(lines[i])])

(* ---------------------------- copy_figures ----------------------------- *)

\* the probe order of the copier
extensions == << <<".", "pdf">>, <<".", "png">>, <<".", "jpg">>, <<".", "jpeg">> >>

\* a directory is a set of <<name, data>> pairs with one pair per name
Names(dir) == {f[1] : f \in dir}
WriteFile(dir, name, data) == {f \in dir : f[1] # name} \cup {<<name, data>>}
DataOf(dir, name) == (CHOOSE f \in dir : f[1] = name)[2]

\* index of the first extension under which the probed source file exists
RECURSIVE FirstExt(_, _, _)
FirstExt(figure_name, files, e) ==
    IF e > Len(extensions) THEN 0
    ELSE IF WithSuffix(figure_name, extensions[e]) \in files THEN e
    ELSE FirstExt(figure_name, files, e + 1)

\* the loop of copy_figures from list position i on.  fail.at is the
\* position whose shutil.copy raises (0: none); fail.partial tells whether
\* the failed copy had already created its target
RECURSIVE CopyLoop(_, _, _, _, _, _)
CopyLoop(figs, i, files, dir, wr, fail) ==
    IF i > Len(figs) THEN [ok |-> TRUE, dir |-> dir, wr |-> wr]
    ELSE LET figure_name == PathStem(figs[i])
             e           == FirstExt(figure_name, files, 1)
         IN  IF e = 0 THEN CopyLoop(figs, i + 1, files, dir, wr, fail)
             ELSE LET source_file == WithSuffix(figure_name, extensions[e])
                      target_file == WithSuffix(FigName(i), extensions[e])
                  IN  IF fail.at = i
                      THEN IF fail.partial
                           THEN [ok  |-> FALSE,
                                 dir |-> WriteFile(dir, target_file, <<"partial">>),
                                 wr  |-> wr \cup {target_file}]
                           ELSE [ok |-> FALSE, dir |-> dir, wr |-> wr]
                      ELSE CopyLoop(figs, i + 1, files,
                                    WriteFile(dir, target_file, <<"copy">> \o source_file),
                                    wr \cup {target_file}, fail)

copy_figures(figs, files, dir, fail) == CopyLoop(figs, 1, files, dir, {}, fail)

(* --------------------------- validate_inputs --------------------------- *)

AuxFile(name) == StrReplace(name, <<".", "tex">>, <<".", "aux">>)

validate_inputs(name, files, figOk, expander) ==
       (IF name \in files THEN <<>> ELSE <<"main">>)
    \o (IF AuxFile(name) \in files THEN <<>> ELSE <<"aux">>)
    \o (IF figOk THEN <<>> ELSE <<"figure_path">>)
    \o (IF expander = "missing" THEN <<"latexpand_missing">>
        ELSE IF expander = "dir" THEN <<"latexpand_dir">> ELSE <<>>)

(* ------------------------------ rewriter ------------------------------- *)

\* length of the match of  cmd \s* \{ [^}]* \}  at the head of s, else 0
RECURSIVE SkipSpace(_, _)
SkipSpace(s, j) ==
    IF j <= Len(s) /\ IsSpace(s[j]) THEN SkipSpace(s, j + 1) ELSE j

MatchLen(s, cmd) ==
    IF s = <<>> \/ s[1] # cmd THEN 0
    ELSE LET j == SkipSpace(s, 2)
         IN  IF j <= Len(s) /\ s[j] = "{" THEN FirstIndex(s, j + 1, "}") ELSE 0

\* re.sub of that pattern: leftmost matches, left to right, not rescanned
RECURSIVE ReSub(_, _, _)
ReSub(s, cmd, repl) ==
    IF s = <<>> THEN <<>>
    ELSE LET m == MatchLen(s, cmd)
         IN  IF m > 0 THEN repl \o ReSub(Drop(s, m), cmd, repl)
             ELSE <<Head(s)>> \o ReSub(Tail(s), cmd, repl)

\* re.sub with count=1: only the leftmost match is replaced
RECURSIVE ReSubFirst(_, _, _)
ReSubFirst(s, cmd, repl) ==
    IF s = <<>> THEN <<>>
    ELSE LET m == MatchLen(s, cmd)
         IN  IF m > 0 THEN repl \o Drop(s, m)
             ELSE <<Head(s)>> \o ReSubFirst(Tail(s), cmd, repl)

\* variant: the strip stops after the first directive
GraphicsPathStripFirst(text) == ReSubFirst(text, GP, <<>>)

GraphicsPathStrip(text) == ReSub(text, GP, <<>>)

BibTarget == <<BIB, "{", "References", "}">>
\* variant: only the first \bibliography directive is repointed
BibRewriteFirst(text) == ReSubFirst(text, BIB, BibTarget)

BibRewrite(text) == ReSub(text, BIB, BibTarget)

\* the renaming loop: one global replace per list position, in list order
RECURSIVE RenameFrom(_, _, _)
RenameFrom(text, figs, i) ==
    IF i > Len(figs) THEN text
    ELSE RenameFrom(StrReplace(text, PathName(figs[i]), FigName(i)), figs, i + 1)

RenameFigures(text, figs) == RenameFrom(text, figs, 1)

Rewrite(text, figs) == BibRewrite(GraphicsPathStrip(RenameFigures(text, figs)))

(* ===================== specifications of the text functions ============ *)

\* the pipeline's files and flags, at rest while one function is exercised
pipeVars == <<main_name, cwdFiles, styleFiles, figDirExists, latexpand, errors,
              success, exitStatus, tdirExists, tmp, cwd, toolsRun, trace,
              failStage, bibResult>>

\* tmp.tex: absent, or present with a text
NoFile == [exists |-> FALSE, text |-> <<>>]
FileOf(text) == [exists |-> TRUE, text |-> text]

\* transformed/ as the run found it
DirOf(files) == [exists |-> TRUE, files |-> files]
NoDir == [exists |-> FALSE, files |-> {}]

PipeIdle ==
    /\ main_name = <<>> /\ cwdFiles = {} /\ styleFiles = {}
    /\ figDirExists = TRUE /\ latexpand = "file" /\ errors = <<>>
    /\ success = TRUE /\ exitStatus = -1 /\ tdirExists = TRUE
    /\ tmp = NoFile /\ cwd = "." /\ toolsRun = {} /\ trace = <<>>
    /\ failStage = "none" /\ bibResult = "none"

NoFail == [at |-> 0, partial |-> FALSE]

TextInit(docs) ==
    /\ PipeIdle
    /\ input \in docs /\ content = input /\ figures = <<>>
    /\ pc = "loaded"
    /\ figDir = {} /\ tdir = {} /\ tdir0 = DirOf({}) /\ written = {}
    /\ failAt = NoFail /\ copyOk = TRUE

\* figures = extract_figure_names(content)
ExtractStep ==
    /\ pc = "loaded"
    /\ figures' = extract_figure_names(content)
    /\ pc' = "extracted"
    /\ UNCHANGED <<pipeVars, input, content, figDir, tdir, tdir0, written,
                   failAt, copyOk>>

\* the three transformations of the rewrite stage, on the extracted list
RewriteStep ==
    /\ pc = "extracted"
    /\ content' = Rewrite(content, figures)
    /\ pc' = "rewritten"
    /\ UNCHANGED <<pipeVars, input, figures, figDir, tdir, tdir0, written,
                   failAt, copyOk>>

\* one application of the \graphicspath removal, applied up to twice
StripStep ==
    /\ pc \in {"loaded", "strip1"}
    /\ content' = GraphicsPathStrip(content)
    /\ pc' = IF pc = "loaded" THEN "strip1" ELSE "strip2"
    /\ UNCHANGED <<pipeVars, input, figures, figDir, tdir, tdir0, written,
                   failAt, copyOk>>

\* one application of the \bibliography rewrite
BibStep ==
    /\ pc = "loaded"
    /\ content' = BibRewrite(content)
    /\ pc' = "bibbed"
    /\ UNCHANGED <<pipeVars, input, figures, figDir, tdir, tdir0, written,
                   failAt, copyOk>>

\* --- extractor: documents made of directives, comment marks and text ---
ExtractSegs ==
    { <<IG, "{", "a", "}">>, <<IG, "[", "w", "]", "{", "b", "}">>,
      <<"%">>, <<NL>>, <<"x">> }
ExtractDocs == {Flatten(d) : d \in SeqsUpTo(ExtractSegs, MaxSegs)}

InitExtract == TextInit(ExtractDocs)
NextExtract == ExtractStep
SpecExtract == InitExtract /\ [][NextExtract]_vars

\* --- rewrite: one directive per line, names that overlap each other ---
RewriteLines ==
    { <<IG, "{", "a", "}", NL>>, <<IG, "{", "a", "b", "}", NL>>,
      <<IG, "{", "d", "/", "b", ".", "png", "}", NL>>,
      <<IG, "{", "Fig", "2", "}", NL>>, <<"%", "b", NL>> }
RewriteDocs == {Flatten(d) : d \in SeqsUpTo(RewriteLines, MaxLines)}

InitRewrite == TextInit(RewriteDocs)
NextRewrite == ExtractStep \/ RewriteStep
SpecRewrite == InitRewrite /\ [][NextRewrite]_vars

\* --- \graphicspath strip ---
StripDocs == SeqsUpTo({GP, "{", "}", SP, "a"}, MaxStripToks)

InitStrip == TextInit(StripDocs)
NextStrip == StripStep
SpecStrip == InitStrip /\ [][NextStrip]_vars

\* --- \bibliography rewrite; <<BIB, "style">> spells \bibliographystyle ---
BibDocs == SeqsUpTo({BIB, "{", "}", NL, "style"}, MaxBibToks)

InitBib == TextInit(BibDocs)
NextBib == BibStep
SpecBib == InitBib /\ [][NextBib]_vars

\* --- copy_figures on its own ---
CopyRefs ==
    { <<"a">>, <<"d", "/", "a", ".", "png">>, <<"b">>,
      <<"a", ".", "b", ".", "png">> }
CopyFiles ==
    { <<"a", ".", "pdf">>, <<"a", ".", "png">>, <<"b", ".", "jpeg">>,
      <<"a", ".", "b", ".", "png">> }
StaleDirs == { {}, {<< <<"Fig", "1", ".", "png">>, <<"old">> >>} }

InitCopy ==
    /\ PipeIdle
    /\ input = <<>> /\ content = <<>>
    /\ figures \in SeqsUpTo(CopyRefs, MaxFigs)
    /\ figDir \in SUBSET CopyFiles
    /\ failAt \in {f \in [at : 0..MaxFigs, partial : BOOLEAN] :
                      f.at = 0 => ~f.partial}
    /\ tdir0 \in {DirOf(d) : d \in StaleDirs} /\ tdir = tdir0.files
    /\ written = {} /\ copyOk = TRUE
    /\ pc = "tocopy"

\* copy_figures(figures, figure_path, target_dir)
CopyStep ==
    /\ pc = "tocopy"
    /\ LET r == copy_figures(figures, figDir, tdir, failAt)
       IN  /\ tdir' = r.dir
           /\ written' = r.wr
           /\ copyOk' = r.ok
    /\ pc' = "copied"
    /\ UNCHANGED <<pipeVars, input, content, figures, figDir, tdir0, failAt>>

NextCopy == CopyStep
SpecCopy == InitCopy /\ [][NextCopy]_vars

(* ============================ the pipeline ============================= *)

MainTex == <<"Main", ".", "tex">>
RefsBib == <<"References", ".", "bib">>

\* what the run is started on
MainNames == { MainTex, <<"Main">> }
CwdNames  == { MainTex, <<"Main", ".", "aux">>, <<"Main">> }
StyleSets == { {}, {<<"x", ".", "cls">>} }
PipeFigDirs ==
    { {}, {<<"a", ".", "png">>},
      {<<"a", ".", "pdf">>, <<"a", ".", "png">>, <<"b", ".", "jpeg">>} }
PipeStale ==
    { NoDir, DirOf({}),
      DirOf({ << <<"Fig", "1", ".", "png">>, <<"old">> >>,
              << <<"Fig", "3", ".", "pdf">>, <<"old">> >>,
              << MainTex, <<"old">> >> }) }

\* the texts the expander can write to tmp.tex
PipeDocs ==
    { <<"x", NL, BIB, "{", "r", "}">>,
      <<IG, "{", "d", "/", "a", "}", NL, IG, "{", "b", ".", "png", "}", NL,
        GP, "{", "d", "/", "}">>,
      <<IG, "{", "c", "}", NL, IG, "{", "a", "}">> }

\* the ways one shutil.copy of copy_figures can raise on a list of n entries
Fails(n) == {f \in [at : 0..n, partial : BOOLEAN] : f.at = 0 => ~f.partial}

envVars == <<main_name, cwdFiles, styleFiles, figDirExists, latexpand, figDir,
             tdir0, input>>

Init ==
    /\ main_name \in MainNames
    /\ cwdFiles \in SUBSET CwdNames
    /\ styleFiles \in StyleSets
    /\ figDirExists \in BOOLEAN
    /\ figDir \in IF figDirExists THEN PipeFigDirs ELSE {{}}
    /\ latexpand \in {"missing", "file", "dir"}
    /\ tdir0 \in PipeStale
    /\ tdirExists = tdir0.exists /\ tdir = tdir0.files
    /\ tmp = NoFile /\ cwd = "."
    /\ errors = <<>> /\ success = TRUE /\ exitStatus = -1
    /\ content = <<>> /\ figures = <<>> /\ input = <<>>
    /\ toolsRun = {} /\ written = {} /\ trace = <<>>
    /\ failStage = "none" /\ bibResult = "none"
    /\ failAt = NoFail /\ copyOk = TRUE
    /\ pc = "validate"

\* variant: the errors are computed but the run goes on
ValidateNoExit ==
    /\ pc = "validate"
    /\ errors' = validate_inputs(main_name, cwdFiles, figDirExists, latexpand)
    /\ pc' = "mkdir"
    /\ UNCHANGED <<envVars, exitStatus, success, tdirExists, tdir, tmp, cwd,
                   content, figures, toolsRun, written, trace, failStage,
                   failAt, copyOk, bibResult>>

\* validate_inputs and the exit on a non-empty list
Validate ==
    /\ pc = "validate"
    /\ errors' = validate_inputs(main_name, cwdFiles, figDirExists, latexpand)
    /\ IF errors' # <<>>
       THEN pc' = "exit" /\ exitStatus' = 1
       ELSE pc' = "mkdir" /\ exitStatus' = exitStatus
    /\ UNCHANGED <<envVars, success, tdirExists, tdir, tmp, cwd, content,
                   figures, toolsRun, written, trace, failStage, failAt,
                   copyOk, bibResult>>

\* variant: an existing transformed/ is emptied before use
MakeTargetDirFresh ==
    /\ pc = "mkdir"
    /\ trace' = Append(trace, "mkdir")
    /\ tdirExists' = TRUE /\ tdir' = {} /\ pc' = "bib"
    /\ UNCHANGED <<envVars, errors, success, failStage, exitStatus, tmp, cwd,
                   content, figures, toolsRun, written, failAt, copyOk,
                   bibResult>>

\* transformed/ is created when absent; a raising mkdir reaches the outer
\* except clause
MakeTargetDir ==
    /\ pc = "mkdir"
    /\ trace' = Append(trace, "mkdir")
    /\ IF tdirExists
       THEN pc' = "bib" /\ UNCHANGED <<tdirExists, success, failStage>>
       ELSE \E raised \in BOOLEAN :
              IF raised
              THEN /\ success' = FALSE /\ failStage' = "mkdir"
                   /\ pc' = "report" /\ tdirExists' = tdirExists
              ELSE /\ tdirExists' = TRUE /\ pc' = "bib"
                   /\ UNCHANGED <<success, failStage>>
    /\ UNCHANGED <<envVars, errors, exitStatus, tdir, tmp, cwd, content,
                   figures, toolsRun, written, failAt, copyOk, bibResult>>

\* variant: a failed export clears the success flag
BibExportFatal ==
    /\ pc = "bib"
    /\ trace' = Append(trace, "bib")
    /\ toolsRun' = toolsRun \cup {"bibexport"}
    /\ \E r \in {"ok", "nonzero", "raise"} :
          /\ bibResult' = r
          /\ success' = (r = "ok")
          /\ failStage' = IF r = "ok" THEN failStage ELSE "bib"
          /\ IF r = "ok"
             THEN /\ tdir' = WriteFile(tdir, RefsBib, <<"bib">> \o AuxFile(main_name))
                  /\ written' = written \cup {RefsBib}
             ELSE UNCHANGED <<tdir, written>>
    /\ pc' = "expand"
    /\ UNCHANGED <<envVars, errors, exitStatus, tdirExists, tmp, cwd, content,
                   figures, failAt, copyOk>>

\* bibexport through run_command_with_check; its result is only warned about
BibExport ==
    /\ pc = "bib"
    /\ trace' = Append(trace, "bib")
    /\ toolsRun' = toolsRun \cup {"bibexport"}
    /\ \E r \in {"ok", "nonzero", "raise"} :
          /\ bibResult' = r
          /\ IF r = "ok"
             THEN /\ tdir' = WriteFile(tdir, RefsBib, <<"bib">> \o AuxFile(main_name))
                  /\ written' = written \cup {RefsBib}
             ELSE UNCHANGED <<tdir, written>>
    /\ pc' = "expand"
    /\ UNCHANGED <<envVars, errors, success, exitStatus, tdirExists, tmp, cwd,
                   content, figures, failStage, failAt, copyOk>>

\* variant: the exit status alone decides, tmp.tex is not looked at
ExpandNoOutputCheck ==
    /\ pc = "expand"
    /\ trace' = Append(trace, "expand")
    /\ toolsRun' = toolsRun \cup {"latexpand"}
    /\ \E status \in {"zero", "nonzero", "raise"} :
          /\ tmp' \in IF status = "raise" THEN {tmp}
                      ELSE IF status = "nonzero"
                      THEN {FileOf(<<>>)} \cup {FileOf(d) : d \in PipeDocs}
                      ELSE {NoFile, FileOf(<<>>)} \cup {FileOf(d) : d \in PipeDocs}
          /\ success' = (success /\ status = "zero")
    /\ failStage' = IF success' THEN failStage ELSE "expand"
    /\ pc' = "read"
    /\ UNCHANGED <<envVars, errors, exitStatus, tdirExists, tdir, cwd, content,
                   figures, written, failAt, copyOk, bibResult>>

\* perl latexpand > tmp.tex through run_command_with_check, and the check
\* that tmp.tex exists and is not empty
Expand ==
    /\ pc = "expand"
    /\ trace' = Append(trace, "expand")
    /\ toolsRun' = toolsRun \cup {"latexpand"}
    /\ \E status \in {"zero", "nonzero", "raise"} :
          /\ tmp' \in IF status = "raise" THEN {tmp}
                      ELSE IF status = "nonzero"
                      THEN {FileOf(<<>>)} \cup {FileOf(d) : d \in PipeDocs}
                      ELSE {NoFile, FileOf(<<>>)} \cup {FileOf(d) : d \in PipeDocs}
          /\ success' = (/\ success /\ status = "zero"
                          /\ tmp'.exists /\ tmp'.text # <<>>)
    /\ failStage' = IF success' THEN failStage ELSE "expand"
    /\ pc' = "read"
    /\ UNCHANGED <<envVars, errors, exitStatus, tdirExists, tdir, cwd, content,
                   figures, written, failAt, copyOk, bibResult>>

\* if success: read tmp.tex
ReadTmp ==
    /\ pc = "read"
    /\ IF success
       THEN /\ trace' = Append(trace, "read")
            /\ \E ok \in BOOLEAN :
                  IF ok
                  THEN content' = tmp.text /\ UNCHANGED <<success, failStage>>
                  ELSE /\ success' = FALSE /\ failStage' = "read"
                       /\ content' = content
       ELSE UNCHANGED <<trace, content, success, failStage>>
    /\ pc' = "figures"
    /\ UNCHANGED <<envVars, errors, exitStatus, tdirExists, tdir, tmp, cwd,
                   figures, toolsRun, written, failAt, copyOk, bibResult>>

\* if success: extract the references and copy the figures
CopyStage ==
    /\ pc = "figures"
    /\ IF success
       THEN LET figs == extract_figure_names(content)
            IN  /\ figures' = figs
                /\ trace' = Append(trace, "figures")
                /\ IF figs # <<>>
                   THEN \E f \in Fails(Len(figs)) :
                          LET r == copy_figures(figs, figDir, tdir, f)
                          IN  /\ failAt' = f
                              /\ tdir' = r.dir
                              /\ written' = written \cup r.wr
                              /\ copyOk' = r.ok
                              /\ success' = r.ok
                              /\ failStage' = IF r.ok THEN failStage ELSE "figures"
                   ELSE UNCHANGED <<failAt, tdir, written, copyOk, success, failStage>>
       ELSE UNCHANGED <<figures, trace, failAt, tdir, written, copyOk, success,
                        failStage>>
    /\ pc' = "move"
    /\ UNCHANGED <<envVars, errors, exitStatus, tdirExists, tmp, cwd, content,
                   toolsRun, bibResult>>

\* the style files copied into a directory
CopyStyles(dir, files) ==
    {f \in dir : f[1] \notin files} \cup {<<n, <<"style">>>> : n \in files}

\* if success: move tmp.tex to transformed/Main.tex, copy *.cls *.sty *.bst
MoveStage ==
    /\ pc = "move"
    /\ IF success
       THEN /\ trace' = Append(trace, "move")
            /\ \/ \* shutil.move raises
                  /\ success' = FALSE /\ failStage' = "move"
                  /\ UNCHANGED <<tdir, written, tmp>>
               \/ \* the move is done; a style copy raises after some copies
                  \E done \in (SUBSET styleFiles) \ {styleFiles} :
                     /\ tmp' = NoFile
                     /\ tdir' = CopyStyles(WriteFile(tdir, MainTex, tmp.text), done)
                     /\ written' = written \cup {MainTex} \cup done
                     /\ success' = FALSE /\ failStage' = "move"
               \/ \* everything is copied
                  /\ tmp' = NoFile
                  /\ tdir' = CopyStyles(WriteFile(tdir, MainTex, tmp.text), styleFiles)
                  /\ written' = written \cup {MainTex} \cup styleFiles
                  /\ UNCHANGED <<success, failStage>>
       ELSE UNCHANGED <<trace, tdir, written, tmp, success, failStage>>
    /\ pc' = "chdir"
    /\ UNCHANGED <<envVars, errors, exitStatus, tdirExists, cwd, content,
                   figures, toolsRun, failAt, copyOk, bibResult>>

\* if success: chdir to transformed/ and read Main.tex
ChdirStage ==
    /\ pc = "chdir"
    /\ IF success
       THEN /\ trace' = Append(trace, "chdir")
            /\ \E o \in {"ok", "chdir_raises", "read_raises"} :
                  /\ cwd' = IF o = "chdir_raises" THEN cwd ELSE "transformed"
                  /\ content' = IF o = "ok" THEN DataOf(tdir, MainTex) ELSE content
                  /\ success' = (o = "ok")
                  /\ failStage' = IF o = "ok" THEN failStage ELSE "chdir"
       ELSE UNCHANGED <<trace, cwd, content, success, failStage>>
    /\ pc' = "rewrite"
    /\ UNCHANGED <<envVars, errors, exitStatus, tdirExists, tdir, tmp, figures,
                   toolsRun, written, failAt, copyOk, bibResult>>

\* if success: rename the figures, strip \graphicspath, repoint
\* \bibliography, write Main.tex back
RewriteStage ==
    /\ pc = "rewrite"
    /\ IF success
       THEN /\ trace' = Append(trace, "rewrite")
            /\ content' = Rewrite(content, figures)
            /\ \E o \in {"ok", "open_raises", "write_raises"} :
                  /\ tdir' = IF o = "ok" THEN WriteFile(tdir, MainTex, content')
                             ELSE IF o = "write_raises"
                             THEN WriteFile(tdir, MainTex, <<>>)
                             ELSE tdir
                  /\ success' = (o = "ok")
                  /\ failStage' = IF o = "ok" THEN failStage ELSE "rewrite"
       ELSE UNCHANGED <<trace, content, tdir, success, failStage>>
    /\ pc' = "report"
    /\ UNCHANGED <<envVars, errors, exitStatus, tdirExists, tmp, cwd, figures,
                   toolsRun, written, failAt, copyOk, bibResult>>

\* the final banner and the exit status
Report ==
    /\ pc = "report"
    /\ exitStatus' = IF success THEN 0 ELSE 1
    /\ pc' = "exit"
    /\ UNCHANGED <<envVars, errors, success, tdirExists, tdir, tmp, cwd,
                   content, figures, toolsRun, written, trace, failStage,
                   failAt, copyOk, bibResult>>

Next ==
    \/ Validate \/ MakeTargetDir \/ BibExport \/ Expand \/ ReadTmp
    \/ CopyStage \/ MoveStage \/ ChdirStage \/ RewriteStage \/ Report

Spec == Init /\ [][Next]_vars

(* ============================== properties ============================= *)

\* a directive  cmd{...}  in the words of the specification: the command
\* name, optional white space, and a braced argument up to the next "}".
\* DirectiveEnds is the set of indices its closing brace can have (0 or 1)
DirectiveEnds(text, i, cmd) ==
    { k \in (i + 2)..Len(text) :
        /\ text[i] = cmd
        /\ text[k] = "}"
        /\ \E j \in (i + 1)..(k - 1) :
              /\ text[j] = "{"
              /\ \A m \in (i + 1)..(j - 1) : IsSpace(text[m])
              /\ \A m \in (j + 1)..(k - 1) : text[m] # "}" }

HasDirective(text, cmd) ==
    \E i \in 1..Len(text) : DirectiveEnds(text, i, cmd) # {}

\* every figure-inclusion directive of a line, left to right
RECURSIVE AllDirectives(_, _)
AllDirectives(line, p) ==
    IF p > Len(line) THEN <<>>
    ELSE IF line[p] = IG /\ DirectiveAt(line, p + 1) # <<0, 0>>
    THEN LET g == DirectiveAt(line, p + 1)
         IN  <<SubSeq(line, g[1], g[2])>> \o AllDirectives(line, g[2] + 2)
    ELSE AllDirectives(line, p + 1)

ExpectedRefs(text) ==
    LET lines == SplitLines(text)
    IN  Flatten([i \in 1..Len(lines) |->
                   IF lines[i] # <<>> /\ lines[i][1] = "%" THEN <<>>
                   ELSE AllDirectives(lines[i], 1)])

\* C4: the extractor returns the path arguments of all figure-inclusion
\* directives on lines not beginning with '%', in document order, one entry
\* per directive, also when several directives share a line
C4_ExtractsEveryDirective ==
    pc = "extracted" => figures = ExpectedRefs(content)

\* C5: after the rewrite the j-th directive of the output names Fig<k> for a
\* position k at which the j-th extracted reference occurs in the list, the
\* file the copier wrote from that reference
C5_SameOrdinalMapping ==
    pc = "rewritten" =>
        LET out == extract_figure_names(content)
        IN  /\ Len(out) = Len(figures)
            /\ \A j \in 1..Len(out) :
                 \E k \in 1..Len(figures) :
                    /\ figures[k] = figures[j]
                    /\ PathName(out[j]) = FigName(k)

StripIdempotent ==
    /\ pc = "strip2" => content = GraphicsPathStrip(input)
    /\ pc \in {"strip1", "strip2"} => ~HasDirective(content, GP)

\* C8 as stated: for every text the strip applied twice yields what one
\* application yields, and no \graphicspath directive is left after one
C8_StripIdempotentEveryText == StripIdempotent

\* a \graphicspath name with no argument of its own standing directly (or
\* after white space only) before a complete \graphicspath directive
Dangling(text) ==
    \E i \in 1..Len(text) :
        /\ text[i] = GP
        /\ \E j \in (i + 1)..Len(text) :
              /\ \A m \in (i + 1)..(j - 1) : IsSpace(text[m])
              /\ DirectiveEnds(text, j, GP) # {}

\* C8 amended: the same, for every text in which no complete \graphicspath
\* directive directly follows a bare \graphicspath command name
C8_StripIdempotent == ~Dangling(input) => StripIdempotent

C8_Witness ==
    /\ pc = "strip2" /\ ~Dangling(input)
    /\ HasDirective(input, GP) /\ content # input

\* the relation "res is doc with each \bibliography directive replaced by
\* \bibliography{References} and every other token kept", left to right
RECURSIVE BibRel(_, _)
BibRel(doc, res) ==
    IF doc = <<>> THEN res = <<>>
    ELSE LET ends == DirectiveEnds(doc, 1, BIB)
         IN  IF ends # {}
             THEN /\ StartsWith(res, BibTarget)
                  /\ BibRel(Drop(doc, CHOOSE k \in ends : TRUE), Drop(res, Len(BibTarget)))
             ELSE /\ res # <<>> /\ Head(res) = Head(doc)
                  /\ BibRel(Tail(doc), Tail(res))

\* C9: every \bibliography{...} directive becomes exactly
\* \bibliography{References}, the text outside the directives (with
\* \bibliographystyle) is kept, and a text without directive is unchanged
C9_BibliographyRewrite ==
    pc = "bibbed" =>
        /\ BibRel(input, content)
        /\ ~HasDirective(input, BIB) => content = input
        /\ \A i \in 1..Len(content) :
              DirectiveEnds(content, i, BIB) # {} =>
                 SubSeq(content, i, i + Len(BibTarget) - 1) = BibTarget

C9_Witness ==
    /\ pc = "bibbed" /\ HasDirective(input, BIB) /\ content # input
    /\ \E i \in 1..(Len(input) - 1) : input[i] = BIB /\ input[i + 1] = "style"

\* the extensions under which the base name of a reference (directory and
\* extension stripped) exists in the figure directory
BaseExts(ref, files) ==
    {e \in 1..Len(extensions) : PathStem(ref) \o extensions[e] \in files}

FigTargets(k) == {FigName(k) \o extensions[e] : e \in 1..Len(extensions)}

MinOf(S) == CHOOSE x \in S : \A y \in S : x <= y

\* C6: when copy_figures succeeds, each reference at position k whose base
\* name exists under some probe extension gets exactly one target file,
\* Fig<k>.<ext>, ext the first existing extension in the order pdf, png,
\* jpg, jpeg, copied from that file
C6_CopiesFirstExisting ==
    (pc = "copied" /\ copyOk) =>
        \A k \in 1..Len(figures) :
            LET E == BaseExts(figures[k], figDir)
            IN  E # {} =>
                  LET ext == extensions[MinOf(E)]
                  IN  /\ written \cap FigTargets(k) = {FigName(k) \o ext}
                      /\ DataOf(tdir, FigName(k) \o ext)
                            = <<"copy">> \o PathStem(figures[k]) \o ext

\* C7: a reference whose base name exists under no probe extension gets no
\* file for its ordinal and does not abort the copy: references after it are
\* copied under their own positions, and the call succeeds unless a copy
\* attempt raised
C7_MissingFigureSkipped ==
    pc = "copied" =>
        /\ \A k \in 1..Len(figures) :
              BaseExts(figures[k], figDir) = {} => written \cap FigTargets(k) = {}
        /\ (\/ failAt.at = 0 \/ failAt.at > Len(figures)
            \/ BaseExts(figures[failAt.at], figDir) = {}) => copyOk
        /\ copyOk =>
              \A j, k \in 1..Len(figures) :
                 (/\ j < k /\ BaseExts(figures[j], figDir) = {}
                  /\ BaseExts(figures[k], figDir) # {})
                     => written \cap FigTargets(k) # {}

(* ------------------------- pipeline properties ------------------------- *)

InputsBad ==
    \/ main_name \notin cwdFiles \/ AuxFile(main_name) \notin cwdFiles
    \/ ~figDirExists \/ latexpand # "file"

OnlyAuxMissing ==
    /\ main_name \in cwdFiles /\ AuxFile(main_name) \notin cwdFiles
    /\ figDirExists /\ latexpand = "file"

\* C1: with a missing main file, .aux file, figure directory or expander (or
\* a directory as expander) the error list is not empty and the run exits
\* with status 1 before any mutation: transformed/ is not created, no tool
\* is run, nothing is written; with only the .aux file missing the list
\* holds exactly one error
C1_ValidationAborts ==
    pc # "validate" =>
        /\ InputsBad => errors # <<>>
        /\ errors # <<>> =>
              /\ pc = "exit" /\ exitStatus = 1
              /\ tdirExists = tdir0.exists /\ tdir = tdir0.files
              /\ toolsRun = {} /\ written = {} /\ trace = <<>>
              /\ tmp = NoFile /\ cwd = "."
        /\ OnlyAuxMissing => errors = <<"aux">>

C1_Witness ==
    /\ pc = "exit" /\ OnlyAuxMissing /\ Len(errors) = 1
    /\ exitStatus = 1 /\ ~tdirExists

Ran(stage) == \E i \in 1..Len(trace) : trace[i] = stage

C2_Failed ==
    failStage # "none" =>
        /\ ~success
        /\ trace # <<>> /\ trace[Len(trace)] = failStage
        /\ pc = "exit" => exitStatus = 1
        /\ failStage = "expand" =>
              /\ written \subseteq {RefsBib} /\ cwd = "." /\ figures = <<>>
              /\ \A n \in Names(tdir) \ Names(tdir0.files) : n = RefsBib

\* an expansion that left no tmp.tex, or an empty one, is a failure
C2_EmptyExpansion ==
    (Ran("expand") /\ pc # "expand" /\ ~Ran("move")
        /\ (~tmp.exists \/ tmp.text = <<>>)) => failStage = "expand"

\* once the success flag is down no stage changes a file, the directory,
\* the text or the flag
C2_Frame ==
    ~success => UNCHANGED <<tdir, tdirExists, tmp, cwd, content, figures,
                            toolsRun, written, trace, success, failStage>>

\* C2: after a fatal stage failure no later stage executes and the exit
\* status is 1; after an expansion failure (non-zero exit, or tmp.tex
\* missing or empty) no figure is copied, Main.tex is not written and the
\* working directory stays
C2_ForwardOnly == [](C2_Failed /\ C2_EmptyExpansion) /\ [][C2_Frame]_vars

C2_Witness ==
    /\ pc = "exit" /\ failStage = "expand" /\ exitStatus = 1
    /\ tmp.exists /\ tmp.text = <<>>

AllStages ==
    <<"mkdir", "bib", "expand", "read", "figures", "move", "chdir", "rewrite">>

\* C3: a failed bibliography export (non-zero exit or exception) leaves the
\* success flag up, the expansion and the later stages still run, and when
\* none of them fails the run ends with status 0 without References.bib
\* having been written
C3_BibFailureNonFatal ==
    bibResult \in {"nonzero", "raise"} =>
        /\ failStage # "bib"
        /\ pc = "expand" => success
        /\ pc # "expand" => "latexpand" \in toolsRun
        /\ RefsBib \notin written
        /\ (pc = "exit" /\ failStage = "none") =>
              exitStatus = 0 /\ trace = AllStages

C3_Witness ==
    /\ pc = "exit" /\ bibResult = "nonzero" /\ exitStatus = 0
    /\ RefsBib \notin Names(tdir) /\ trace = AllStages

\* C10: every file transformed/ held before the run is still there after
\* any step, and unchanged unless the run wrote a file of that name
C10_NoDeletion ==
    tdir0.exists =>
        \A f \in tdir0.files :
            /\ f[1] \in Names(tdir)
            /\ f[1] \notin written => f \in tdir

C10_Witness ==
    /\ pc = "exit" /\ exitStatus = 0
    /\ << <<"Fig", "1", ".", "png">>, <<"old">> >> \in tdir
    /\ << <<"Fig", "3", ".", "pdf">>, <<"old">> >> \in tdir
    /\ <<"Fig", "1", ".", "pdf">> \in written
    /\ MainTex \in written

====
